---- MODULE Spec2Model ----
(***************************************************************************)
(* Model of the to-do list page (app/page.tsx, component Home) and of the  *)
(* AI generation route (app/api/ai-generate/route.ts, handler POST).       *)
(*                                                                         *)
(* A state is the React state of Home after a render, the clock, and the   *)
(* fetches that were sent and have not settled.  One action is one event   *)
(* handler run to completion, or the continuation of generateWithAI after  *)
(* its awaits.                                                             *)
(***************************************************************************)
EXTENDS Integers, Sequences, FiniteSets, TLC

(* ------------------------------ bounds -------------------------------- *)
MaxNow == 1
\* last millisecond of the session clock
RandSteps == 1
\* Math.random() in units of 1 / RandSteps, as far as the sum with Date.now() keeps it
MaxDrafts == 1
\* number of subtask input boxes the user ever types into
MaxCalls == 3
\* number of getId calls in a session, which bounds the entities ever created

(* --------------------------- JavaScript values ------------------------ *)
\* A string is a sequence of one-character strings.
Whitespace == {" "}

InputTexts == { <<>>, <<" ">>, <<" ", "b", " ">> }
\* what the user types into a text box

Str(s) == [t |-> "string", s |-> s]
Undefined == [t |-> "undefined", s |-> <<>>]
Null == [t |-> "null", s |-> <<>>]
Num == [t |-> "number", s |-> <<>>]
Arr(a) == [t |-> "array", a |-> a]
Obj(task, subtasks) == [t |-> "object", task |-> task, subtasks |-> subtasks]
\* a JSON object read through its keys task and subtasks; a missing key reads Undefined

RECURSIVE TrimStart(_)
TrimStart(s) ==
    IF s # <<>> /\ Head(s) \in Whitespace THEN TrimStart(Tail(s)) ELSE s

RECURSIVE TrimEnd(_)
TrimEnd(s) ==
    IF s # <<>> /\ s[Len(s)] \in Whitespace
    THEN TrimEnd(SubSeq(s, 1, Len(s) - 1))
    ELSE s

Trim(s) == TrimEnd(TrimStart(s))

(* -------------------------------- state ------------------------------- *)
VARIABLES
    todos,          \* useState<Todo[]>: the task store
    newTodo,        \* text of the "Add a new task" box
    subtaskInputs,  \* Record<number, string>: text of the subtask boxes
    aiInput,        \* text of the AI prompt box
    showAI,         \* whether the AI panel is rendered
    loadingAi,      \* the in-flight indicator
    pending,        \* fetches to /api/ai-generate sent and not yet settled
    now,            \* Date.now()
    issued,         \* history: how often getId has returned each id
    phase,          \* history: state of the latest generateWithAI invocation
    touched         \* history: the store was changed while a fetch was pending

vars == <<todos, newTodo, subtaskInputs, aiInput, showAI, loadingAi, pending,
          now, issued, phase, touched>>

ui == <<newTodo, subtaskInputs, aiInput, showAI>>
ai == <<loadingAi, pending, phase>>

(* -------------------------------- ids --------------------------------- *)
\* Date.now() + Math.random() is a double: next to a millisecond count of
\* today's magnitude it keeps only a few bits of the random fraction, and a
\* fraction close to 1 rounds up to the next millisecond.  getId(ms, r) is
\* the sum for the fraction r / RandSteps, r = RandSteps being the rounded-up
\* case.
Ids == 0 .. (MaxNow * RandSteps + RandSteps)

getId(ms, r) == ms * RandSteps + r

IdsAt(ms) == { getId(ms, r) : r \in 0 .. RandSteps }

\* drawn is a function whose values are the ids getId returned in one handler
Issue(cnt, drawn) ==
    [id \in Ids |-> cnt[id] + Cardinality({p \in DOMAIN drawn : drawn[p] = id})]

RECURSIVE Sum(_, _)
Sum(cnt, ids) ==
    IF ids = {} THEN 0
    ELSE LET id == CHOOSE x \in ids : TRUE IN cnt[id] + Sum(cnt, ids \ {id})

Calls == Sum(issued, Ids)

(* ----------------------------- task store ----------------------------- *)
Todo(id, text) ==
    [id |-> id, text |-> text, completed |-> FALSE, subtasks |-> <<>>]

Subtask(id, text) == [id |-> id, text |-> text, completed |-> FALSE]

addTodoAtTail(prev, text, id) ==
    IF Trim(text) = <<>> THEN prev ELSE prev \o <<Todo(id, Str(Trim(text)))>>

addTodo(prev, text, id) ==
    IF Trim(text) = <<>> THEN prev ELSE <<Todo(id, Str(Trim(text)))>> \o prev

toggleTodoSetsTrue(prev, id) ==
    [i \in 1 .. Len(prev) |->
        IF prev[i].id = id THEN [prev[i] EXCEPT !.completed = TRUE] ELSE prev[i]]

toggleTodo(prev, id) ==
    [i \in 1 .. Len(prev) |->
        IF prev[i].id = id THEN [prev[i] EXCEPT !.completed = ~@] ELSE prev[i]]

RECURSIVE Filter(_, _)
Filter(s, id) ==
    IF s = <<>> THEN <<>>
    ELSE IF Head(s).id # id THEN <<Head(s)>> \o Filter(Tail(s), id)
    ELSE Filter(Tail(s), id)

RECURSIVE FilterFromMatch(_, _)
FilterFromMatch(s, id) ==
    IF s = <<>> THEN <<>>
    ELSE IF Head(s).id # id THEN <<Head(s)>> \o FilterFromMatch(Tail(s), id)
    ELSE <<>>

deleteTodoTruncates(prev, id) == FilterFromMatch(prev, id)

deleteTodo(prev, id) == Filter(prev, id)

\* getId runs once for every task the map callback matches: ids[i] is the
\* id drawn while task i is visited.
addSubtaskAtHead(prev, todoId, subtaskText, ids) ==
    [i \in 1 .. Len(prev) |->
        IF prev[i].id = todoId
        THEN [prev[i] EXCEPT !.subtasks = <<Subtask(ids[i], subtaskText)>> \o @]
        ELSE prev[i]]

addSubtask(prev, todoId, subtaskText, ids) ==
    [i \in 1 .. Len(prev) |->
        IF prev[i].id = todoId
        THEN [prev[i] EXCEPT !.subtasks = Append(@, Subtask(ids[i], subtaskText))]
        ELSE prev[i]]

toggleSubtask(prev, todoId, subtaskId) ==
    [i \in 1 .. Len(prev) |->
        IF prev[i].id = todoId
        THEN [prev[i] EXCEPT !.subtasks =
                [j \in 1 .. Len(@) |->
                    IF @[j].id = subtaskId
                    THEN [@[j] EXCEPT !.completed = ~@]
                    ELSE @[j]]]
        ELSE prev[i]]

bulkPrependOverwrites(prev, newTasks) == newTasks

bulkPrepend(prev, newTasks) == newTasks \o prev

TaskIds(s) == { s[i].id : i \in 1 .. Len(s) }

MatchIdx(s, id) == { i \in 1 .. Len(s) : s[i].id = id }

(* ------------------------ route.ts: POST handler ---------------------- *)
\* The text the completion backend returns is a sequence of tokens.  The
\* tokens "[", "]" and "," build arrays; every other token is either a JSON
\* literal of the table below or a bare word that JSON.parse rejects.
ObjA == "{\"task\":\"a\",\"subtasks\":[\"b\"]}"
ObjB == "{\"task\":\"b\",\"subtasks\":[]}"
ObjBlank == "{\"task\":\" \",\"subtasks\":[]}"
ObjNoSubtasks == "{\"task\":\"a\"}"
ObjNoTask == "{\"subtasks\":[]}"
NumLit == "5"
NullLit == "null"

Literals ==
    (ObjA :> Obj(Str(<<"a">>), Arr(<<Str(<<"b">>)>>))) @@
    (ObjB :> Obj(Str(<<"b">>), Arr(<<>>))) @@
    (ObjBlank :> Obj(Str(<<" ">>), Arr(<<>>))) @@
    (ObjNoSubtasks :> Obj(Str(<<"a">>), Undefined)) @@
    (ObjNoTask :> Obj(Undefined, Arr(<<>>))) @@
    (NumLit :> Num) @@
    (NullLit :> Null)

RawContents ==
    { <<>>,
      <<"not", "json">>,
      <<"[", "]">>,
      <<"[", ObjA, "]">>,
      <<"[", ObjB, ",", ObjBlank, "]">>,
      <<"[", ObjA, ",", "]">>,
      <<ObjA>>,
      <<"[", ObjNoSubtasks, "]">>,
      <<"[", ObjB, ",", ObjNoSubtasks, "]">>,
      <<"[", ObjNoTask, "]">>,
      <<"[", NumLit, "]">>,
      <<"[", NullLit, "]">> }

SyntaxError == [ok |-> FALSE, value |-> Undefined]
Parsed(v) == [ok |-> TRUE, value |-> v]

RECURSIVE ParseElements(_)
ParseElements(toks) ==
    IF toks = <<>> \/ Head(toks) \notin DOMAIN Literals THEN SyntaxError
    ELSE IF Len(toks) = 1 THEN Parsed(<<Literals[Head(toks)]>>)
    ELSE IF toks[2] # "," THEN SyntaxError
    ELSE LET rest == ParseElements(SubSeq(toks, 3, Len(toks)))
         IN  IF rest.ok THEN Parsed(<<Literals[Head(toks)]>> \o rest.value)
             ELSE SyntaxError

JSONparse(raw) ==
    IF raw = <<>> THEN SyntaxError
    ELSE IF Len(raw) = 1
    THEN IF raw[1] \in DOMAIN Literals THEN Parsed(Literals[raw[1]]) ELSE SyntaxError
    ELSE IF raw[1] = "[" /\ raw[Len(raw)] = "]"
    THEN IF Len(raw) = 2 THEN Parsed(Arr(<<>>))
         ELSE LET els == ParseElements(SubSeq(raw, 2, Len(raw) - 1))
              IN  IF els.ok THEN Parsed(Arr(els.value)) ELSE SyntaxError
    ELSE SyntaxError

\* What openai.chat.completions.create does: it rejects, it resolves with no
\* choice, or it resolves with a first choice whose content is a text (a
\* null content reads as the empty text).
BackendOutcomes ==
    { [kind |-> "reject", content |-> <<>>],
      [kind |-> "nochoices", content |-> <<>>] } \cup
    { [kind |-> "content", content |-> raw] : raw \in RawContents }

POST(outcome) ==
    IF outcome.kind \in {"reject", "nochoices"}
    THEN [status |-> 500, tasks |-> Arr(<<>>)]
    ELSE LET p == JSONparse(outcome.content)
         IN  [status |-> 200, tasks |-> IF p.ok THEN p.value ELSE Arr(<<>>)]

\* The route's answer to each backend outcome, tabulated.
RouteAnswer == [outcome \in BackendOutcomes |-> POST(outcome)]

(* ------------------- page.tsx: generateWithAI, client ----------------- *)
TaskOf(item) == IF item.t = "object" THEN item.task ELSE Undefined

SubtasksOf(item) == IF item.t = "object" THEN item.subtasks ELSE Undefined

\* The TypeErrors of lines 109-120: map of a non-array, a property of null.
MapThrows(tasks) ==
    IF tasks.t # "array" THEN TRUE
    ELSE \E i \in 1 .. Len(tasks.a) :
            IF tasks.a[i].t = "null" THEN TRUE
            ELSE SubtasksOf(tasks.a[i]).t # "array"

\* Whether the page's try block throws on the route's answer, tabulated.
Throws == [outcome \in BackendOutcomes |-> MapThrows(RouteAnswer[outcome].tasks)]

\* One getId call per generated task (j = 0) and per generated subtask (j > 0).
Positions(tasks) ==
    UNION { { <<i, j>> : j \in 0 .. Len(SubtasksOf(tasks.a[i]).a) } :
            i \in 1 .. Len(tasks.a) }

newTasks(tasks, idAt) ==
    [i \in 1 .. Len(tasks.a) |->
        [id |-> idAt[<<i, 0>>],
         text |-> TaskOf(tasks.a[i]),
         completed |-> FALSE,
         subtasks |->
            [j \in 1 .. Len(SubtasksOf(tasks.a[i]).a) |->
                Subtask(idAt[<<i, j>>], SubtasksOf(tasks.a[i]).a[j])]]]

settleKeepsLoading(loading) == loading

\* line 127, the finally block: setLoadingAi(false)
settle(loading) == FALSE

buttonAlwaysEnabled == showAI

\* lines 185 and 202: the Generate button is rendered in the AI panel and is
\* disabled while loadingAi
buttonEnabled == showAI /\ ~loadingAi

\* What fetch and res.json() give the page: a rejection, or the route's response.
FetchOutcomes ==
    { [kind |-> "networkError", content |-> <<>>] } \cup BackendOutcomes

(* ------------------------------- Init --------------------------------- *)
Init ==
    /\ todos = <<>>
    /\ newTodo = <<>>
    /\ subtaskInputs = <<>>
    /\ aiInput = <<>>
    /\ showAI = FALSE
    /\ loadingAi = FALSE
    /\ pending = 0
    /\ now = 0
    /\ issued = [id \in Ids |-> 0]
    /\ phase = "Idle"
    /\ touched = FALSE

\* history: a store mutation during a pending fetch
Touch(after) == touched' = (touched \/ (pending > 0 /\ after # todos))

(* ------------------------------ actions ------------------------------- *)
\* line 170: onChange of the new-task box
SetNewTodo ==
    \E v \in InputTexts :
        /\ newTodo' = v
        /\ UNCHANGED <<todos, subtaskInputs, aiInput, showAI, ai, now, issued, touched>>

\* lines 35-45
AddTodo ==
    \E r \in 0 .. RandSteps :
        LET id == getId(now, r) IN
        IF Trim(newTodo) = <<>>
        THEN /\ todos' = addTodo(todos, newTodo, id)
             /\ UNCHANGED <<ui, ai, now, issued, touched>>
        ELSE /\ Calls < MaxCalls
             /\ todos' = addTodo(todos, newTodo, id)
             /\ newTodo' = <<>>
             /\ issued' = Issue(issued, <<id>>)
             /\ Touch(todos')
             /\ UNCHANGED <<subtaskInputs, aiInput, showAI, ai, now>>

\* lines 48-54
ToggleTodo ==
    \E id \in Ids :
        /\ todos' = toggleTodo(todos, id)
        /\ Touch(todos')
        /\ UNCHANGED <<ui, ai, now, issued>>

\* lines 57-59
DeleteTodo ==
    \E id \in Ids :
        /\ todos' = deleteTodo(todos, id)
        /\ Touch(todos')
        /\ UNCHANGED <<ui, ai, now, issued>>

\* lines 83-96
ToggleSubtask ==
    \E todoId \in Ids, subtaskId \in Ids :
        /\ todos' = toggleSubtask(todos, todoId, subtaskId)
        /\ Touch(todos')
        /\ UNCHANGED <<ui, ai, now, issued>>

\* lines 132-137; the box belongs to a rendered task
HandleSubtaskInputChange ==
    \E todoId \in TaskIds(todos), v \in InputTexts :
        /\ todoId \in DOMAIN subtaskInputs \/ Cardinality(DOMAIN subtaskInputs) < MaxDrafts
        /\ subtaskInputs' =
              [k \in DOMAIN subtaskInputs \cup {todoId} |->
                  IF k = todoId THEN v ELSE subtaskInputs[k]]
        /\ UNCHANGED <<todos, newTodo, aiInput, showAI, ai, now, issued, touched>>

\* subtaskInputs[todoId]?.trim(): the empty text stands for both '' and undefined
DraftOf(todoId) ==
    IF todoId \in DOMAIN subtaskInputs THEN Trim(subtaskInputs[todoId]) ELSE <<>>

\* lines 140-149, with addSubtask of lines 62-80
HandleSubtaskSubmitOf(todoId) ==
    IF DraftOf(todoId) = <<>>
    THEN UNCHANGED vars
    ELSE \E ids \in [MatchIdx(todos, todoId) -> IdsAt(now)] :
            /\ Calls + Cardinality(MatchIdx(todos, todoId)) <= MaxCalls
            /\ todos' = addSubtask(todos, todoId, Str(DraftOf(todoId)), ids)
            /\ subtaskInputs' = [subtaskInputs EXCEPT ![todoId] = <<>>]
            /\ issued' = Issue(issued, ids)
            /\ Touch(todos')
            /\ UNCHANGED <<newTodo, aiInput, showAI, ai, now>>

HandleSubtaskSubmit == \E todoId \in Ids : HandleSubtaskSubmitOf(todoId)

\* line 158
ToggleAI ==
    /\ showAI' = ~showAI
    /\ UNCHANGED <<todos, newTodo, subtaskInputs, aiInput, ai, now, issued, touched>>

\* line 196: the prompt box is rendered in the AI panel
SetAiInput ==
    \E v \in InputTexts :
        /\ showAI
        /\ aiInput' = v
        /\ UNCHANGED <<todos, newTodo, subtaskInputs, showAI, ai, now, issued, touched>>

\* lines 99-107: a click on the Generate button, up to the first await
GenerateWithAI ==
    /\ buttonEnabled
    /\ IF Trim(aiInput) = <<>>
       THEN UNCHANGED vars
       ELSE /\ loadingAi' = TRUE
            /\ pending' = pending + 1
            /\ phase' = "Requesting"
            /\ touched' = FALSE
            /\ UNCHANGED <<todos, ui, now, issued>>

\* lines 108-123 and 126-128: the response arrives and the try block completes
GenerateSucceedsWith(outcome) ==
    LET data == RouteAnswer[outcome] IN
    /\ pending > 0
    /\ ~Throws[outcome]
    /\ Calls + Cardinality(Positions(data.tasks)) <= MaxCalls
    /\ \E idAt \in [Positions(data.tasks) -> IdsAt(now)] :
          /\ todos' = bulkPrepend(todos, newTasks(data.tasks, idAt))
          /\ issued' = Issue(issued, idAt)
    /\ aiInput' = <<>>
    /\ loadingAi' = settle(loadingAi)
    /\ pending' = pending - 1
    /\ phase' = "Succeeded"
    /\ UNCHANGED <<newTodo, subtaskInputs, showAI, now, touched>>

GenerateSucceeds == \E outcome \in BackendOutcomes : GenerateSucceedsWith(outcome)

\* lines 124-128: fetch or res.json() rejects, or the try block throws
GenerateFailsWith(outcome) ==
    /\ pending > 0
    /\ IF outcome.kind = "networkError" THEN TRUE
       ELSE Throws[outcome]
    /\ loadingAi' = settle(loadingAi)
    /\ pending' = pending - 1
    /\ phase' = "Failed"
    /\ UNCHANGED <<todos, ui, now, issued, touched>>

GenerateFails == \E outcome \in FetchOutcomes : GenerateFailsWith(outcome)

\* Date.now() moves on
Tick ==
    /\ now < MaxNow
    /\ now' = now + 1
    /\ UNCHANGED <<todos, ui, ai, issued, touched>>

Next ==
    \/ SetNewTodo
    \/ AddTodo
    \/ ToggleTodo
    \/ DeleteTodo
    \/ ToggleSubtask
    \/ HandleSubtaskInputChange
    \/ HandleSubtaskSubmit
    \/ ToggleAI
    \/ SetAiInput
    \/ GenerateWithAI
    \/ GenerateSucceeds
    \/ GenerateFails
    \/ Tick

Spec == Init /\ [][Next]_vars

\* The session of a user who never opens the AI panel.
NextStore ==
    \/ SetNewTodo
    \/ AddTodo
    \/ ToggleTodo
    \/ DeleteTodo
    \/ ToggleSubtask
    \/ HandleSubtaskInputChange
    \/ HandleSubtaskSubmit
    \/ Tick

SpecStore == Init /\ [][NextStore]_vars

\* The session of a user who never types into a subtask box.
NextAI ==
    \/ SetNewTodo
    \/ AddTodo
    \/ ToggleTodo
    \/ DeleteTodo
    \/ ToggleSubtask
    \/ ToggleAI
    \/ SetAiInput
    \/ GenerateWithAI
    \/ GenerateSucceeds
    \/ GenerateFails
    \/ Tick

SpecAI == Init /\ [][NextAI]_vars

(* ============================== claims ================================ *)
Blank(text) == text.t # "string" \/ Trim(text.s) = <<>>

\* C1: addTask(t) leaves the store unchanged exactly when t trims to the
\* empty string; otherwise the store gains exactly one task at index 0 with
\* text t trimmed, completed false and no subtasks, and the tasks already
\* present follow it unchanged and in their order.
C1_AddTaskContract ==
    [][AddTodo =>
        /\ (todos' = todos) <=> (Trim(newTodo) = <<>>)
        /\ Trim(newTodo) # <<>> =>
              /\ Len(todos') = Len(todos) + 1
              /\ todos'[1].text = Str(Trim(newTodo))
              /\ todos'[1].completed = FALSE
              /\ todos'[1].subtasks = <<>>
              /\ \A i \in 1 .. Len(todos) : todos'[i + 1] = todos[i]]_vars

\* An added task sits at the head, in front of an older task that has
\* collected a subtask since.
C1_Witness ==
    /\ Len(todos) = 2
    /\ todos[1].text = Str(<<"b">>)
    /\ todos[1].subtasks = <<>>
    /\ todos[2].subtasks # <<>>
    /\ todos[1].id # todos[2].id
    /\ newTodo = <<>>

\* C6: toggleTask(id) applied twice gives back the store; applied once it
\* changes nothing but the completed flag of the tasks carrying id, keeps
\* ids, texts, subtasks, length and order, and changes nothing when no task
\* carries id.
C6_ToggleTask ==
    \A id \in Ids :
        LET t == toggleTodo(todos, id) IN
        /\ toggleTodo(t, id) = todos
        /\ Len(t) = Len(todos)
        /\ \A i \in 1 .. Len(todos) :
              /\ t[i].id = todos[i].id
              /\ t[i].text = todos[i].text
              /\ t[i].subtasks = todos[i].subtasks
              /\ (t[i].completed # todos[i].completed) <=> (todos[i].id = id)
        /\ id \notin TaskIds(todos) => t = todos

\* A task has been toggled to completed while its subtask and the other
\* task stayed open.
C6_Witness ==
    /\ Len(todos) = 2
    /\ todos[1].id # todos[2].id
    /\ todos[1].completed
    /\ ~todos[2].completed
    /\ Len(todos[1].subtasks) = 1
    /\ ~todos[1].subtasks[1].completed

\* C7: deleteTask(id) removes the tasks carrying id and keeps every other
\* task, unmodified and in the same relative order; deleting again, or
\* deleting an id no task carries, changes nothing.
C7_DeleteTask ==
    \A id \in Ids :
        LET d == deleteTodo(todos, id)
            keep == { i \in 1 .. Len(todos) : todos[i].id # id }
        IN  /\ Len(d) = Cardinality(keep)
            /\ \A i \in keep : d[Cardinality({ j \in keep : j <= i })] = todos[i]
            /\ deleteTodo(d, id) = d
            /\ id \notin TaskIds(todos) => d = todos

\* Three tasks were created, one was deleted, two different ones remain.
C7_Witness ==
    /\ Calls = 3
    /\ Len(todos) = 2
    /\ todos[1].subtasks = <<>>
    /\ todos[2].subtasks = <<>>
    /\ todos[1].id # todos[2].id

\* C8: a subtask submission for taskId changes nothing in the store when
\* the text trims to empty or no task carries taskId; otherwise a task
\* carrying taskId gets exactly one new subtask, not completed, with the
\* trimmed text, behind its existing subtasks, which stay as they were, as
\* do its id, text and completed flag and every other task.
C8_AddSubtask ==
    [][\A todoId \in Ids : HandleSubtaskSubmitOf(todoId) =>
        /\ (DraftOf(todoId) = <<>> \/ todoId \notin TaskIds(todos)) => todos' = todos
        /\ DraftOf(todoId) # <<>> =>
              /\ Len(todos') = Len(todos)
              /\ \A i \in 1 .. Len(todos) :
                    IF todos[i].id = todoId
                    THEN LET old == todos[i].subtasks
                             new == todos'[i].subtasks
                         IN  /\ Len(new) = Len(old) + 1
                             /\ SubSeq(new, 1, Len(old)) = old
                             /\ new[Len(new)].text = Str(DraftOf(todoId))
                             /\ new[Len(new)].completed = FALSE
                             /\ todos'[i].id = todos[i].id
                             /\ todos'[i].text = todos[i].text
                             /\ todos'[i].completed = todos[i].completed
                    ELSE todos'[i] = todos[i]]_vars

\* A second subtask was appended behind a first one that had been completed.
C8_Witness ==
    \E i \in 1 .. Len(todos) :
        /\ Len(todos[i].subtasks) = 2
        /\ todos[i].subtasks[1].completed
        /\ ~todos[i].subtasks[2].completed
        /\ todos[i].subtasks[2].text = Str(<<"b">>)

\* C2: no task and no subtask of the store ever has blank text.
C2_NoBlankText ==
    \A i \in 1 .. Len(todos) :
        /\ ~Blank(todos[i].text)
        /\ \A j \in 1 .. Len(todos[i].subtasks) : ~Blank(todos[i].subtasks[j].text)

\* The shape the route promises: an array of {task: string, subtasks: string[]}.
ExpectedShape(v) ==
    IF v.t # "array" THEN FALSE
    ELSE \A i \in 1 .. Len(v.a) :
            IF v.a[i].t # "object" THEN FALSE
            ELSE /\ v.a[i].task.t = "string"
                 /\ IF v.a[i].subtasks.t # "array" THEN FALSE
                    ELSE \A j \in 1 .. Len(v.a[i].subtasks.a) :
                            v.a[i].subtasks.a[j].t = "string"

WellFormed(outcome) ==
    IF outcome.kind # "content" THEN FALSE
    ELSE IF ~JSONparse(outcome.content).ok THEN FALSE
    ELSE ExpectedShape(JSONparse(outcome.content).value)

\* C3: whenever the page receives the route's answer, that answer has the
\* promised shape, and it is the empty task list if the backend call failed
\* or its text was not valid JSON of that shape.
C3_GatewayFailSoft ==
    [][pending' < pending =>
       \A outcome \in BackendOutcomes :
        (GenerateSucceedsWith(outcome) \/ GenerateFailsWith(outcome)) =>
            /\ ExpectedShape(RouteAnswer[outcome].tasks)
            /\ ~WellFormed(outcome) => RouteAnswer[outcome].tasks = Arr(<<>>)]_vars

\* C4: at most one AI generation request is outstanding.
C4_OneRequest == pending <= 1

\* A request is outstanding while the AI panel is open and holds a prompt
\* that a click would send.
C4_Witness ==
    /\ pending = 1
    /\ showAI
    /\ Trim(aiInput) # <<>>

\* C5: loadingAi is true exactly while a request is outstanding, that is in
\* phase Requesting; the settling of the fetch takes Requesting to exactly
\* one of Succeeded and Failed and clears loadingAi; a terminal phase is left
\* only by a new request; with a blank prompt no request is sent and
\* Requesting is not entered.
C5_Lifecycle ==
    /\ [](loadingAi <=> pending > 0)
    /\ [](loadingAi <=> phase = "Requesting")
    /\ [][/\ (phase = "Requesting" /\ pending' # pending) =>
                /\ phase' \in {"Succeeded", "Failed"}
                /\ pending' = pending - 1
                /\ ~loadingAi'
          /\ (phase \in {"Succeeded", "Failed"}) => phase' \in {phase, "Requesting"}
          /\ (phase # "Requesting" /\ phase' = "Requesting") =>
                /\ Trim(aiInput) # <<>>
                /\ pending' = pending + 1
          /\ Trim(aiInput) = <<>> =>
                /\ pending' <= pending
                /\ phase' = "Requesting" => phase = "Requesting"]_vars

\* A request has failed after an earlier one had put tasks into the store.
C5_Witness ==
    /\ phase = "Failed"
    /\ ~loadingAi
    /\ pending = 0
    /\ todos # <<>>
    /\ Calls = Len(todos)
    /\ newTodo = <<>>
    /\ \E i \in 1 .. Len(todos) : todos[i].text = Str(<<" ">>)

SubtaskIds(todo) == { todo.subtasks[j].id : j \in 1 .. Len(todo.subtasks) }

NewlyIssued == { id \in Ids : issued'[id] > issued[id] }

\* C9: no two tasks of the store share an id and no two subtasks of a task
\* do; no step changes the id an entity has; getId never returns an id it
\* has returned before.
C9_UniqueStableIds ==
    /\ [](Cardinality(TaskIds(todos)) = Len(todos))
    /\ [](\A i \in 1 .. Len(todos) :
             Cardinality(SubtaskIds(todos[i])) = Len(todos[i].subtasks))
    /\ [](\A id \in Ids : issued[id] <= 1)
    /\ [][TaskIds(todos') \subseteq TaskIds(todos) \cup NewlyIssued]_vars

====
